---------------------------- MODULE Spec2Model ----------------------------
(***************************************************************************)
(* State-machine model of the InstrumentKit drivers for the SRS830 lock-in *)
(* amplifier (srs/srs830.py) and the Thorlabs TC200 temperature controller *)
(* (thorlabs/tc200.py).                                                    *)
(*                                                                         *)
(* Neither driver keeps state between calls (the only attributes set are   *)
(* the communicator and the TC200 terminators, at construction), so a      *)
(* behaviour is the construction of an instrument followed by one call on  *)
(* it; where what a call does depends on what an earlier one wrote, the    *)
(* device is part of the state: a getter is read after its setter on an    *)
(* echoing channel, and the TC200 enable setter is assigned repeatedly     *)
(* against a device that holds a status word.  `sent` is the record of the *)
(* commands that call has written to the channel (at first, those the      *)
(* constructor wrote), `raised` the exception it ended with and `ret` its  *)
(* return value.  Calls that only validate,                                *)
(* encode and write are one step; calls that read replies take one step    *)
(* per round trip, the reply being chosen by the device.                   *)
(***************************************************************************)
EXTENDS Integers, Sequences, FiniteSets, TLC

VARIABLES
    op,        \* the driver call in progress or last finished
    args,      \* its arguments, a tuple of Python values
    sent,      \* commands written to the channel by this call, in order
    raised,    \* "none", or the exception the call ended with
    ret,       \* the value returned (PyNone until then)
    pc,        \* "idle" once constructed, then the position inside the call,
               \* "done" when the call has returned or raised
    caller,    \* who invoked num_data_points: "get", "flush", "read"
    chan,      \* channel code held by read_data_buffer (0 when not reading)
    i,         \* num_data_points: attempts made
    resp,      \* the last reply read (PyNone before any), stripped in
               \* num_data_points
    npts,      \* read_data_buffer: N, the point count it obtained
    slept,     \* take_measurement: tenths of a second slept so far
    flushed,   \* take_measurement: outcome of the forced-flush query
    data,      \* take_measurement: channel buffers read so far
    status     \* the status word of the TC200 the driver is attached to
               \* (0 until one is attached)

vars == <<op, args, sent, raised, ret, pc, caller, chan, i, resp, npts,
          slept, flushed, data, status>>

---------------------------------------------------------------------------
(* Bounds of the model.                                                    *)

\* how far around each range boundary the numeric inputs are drawn
Spread == 1

\* the device status words drawn for stat? replies are 0..MaxStatus
MaxStatus == 255

---------------------------------------------------------------------------
(* Python values.  Every value carries its kind; numbers are exact         *)
(* rationals n/d (d > 0, lowest terms), so 0.004, 2.0**-4 and a converted  *)
(* magnitude are held without rounding and 1 == 1.0.                       *)

RECURSIVE GCD(_, _)
GCD(a, b) == IF b = 0 THEN a ELSE GCD(b, a % b)

Abs(x) == IF x < 0 THEN -x ELSE x

Rat(n, d) ==
    LET g == GCD(Abs(n), d)
    IN  [kind |-> "num", n |-> n \div g, d |-> d \div g]

PyInt(n) == Rat(n, 1)
PyStr(s) == [kind |-> "str", chars |-> s]
PyBool(b) == [kind |-> "bool", b |-> b]
PyNone == [kind |-> "none"]
PyList(s) == [kind |-> "list", items |-> s]

IsNum(v) == v.kind = "num"
IsStr(v) == v.kind = "str"
IsBool(v) == v.kind = "bool"

Lt(a, b) == a.n * b.d < b.n * a.d
Gt(a, b) == Lt(b, a)
Ge(a, b) == ~Lt(a, b)
Mul(a, b) == Rat(a.n * b.n, a.d * b.d)
Div(a, b) == IF b.n < 0 THEN Rat(-(a.n * b.d), a.d * (-b.n))
             ELSE Rat(a.n * b.d, a.d * b.n)

\* math.ceil of a rational, as an integer
Ceil(a) == -((-a.n) \div a.d)

\* Python == on two values of the model (values of different kinds differ)
PyEq(a, b) ==
    /\ a.kind = b.kind
    /\ a = b

\* list.index / `in` on a tuple of values
Contains(seq, v) == \E k \in 1..Len(seq) : PyEq(seq[k], v)
IndexOf(seq, v) ==
    (CHOOSE k \in 1..Len(seq) :
        /\ PyEq(seq[k], v)
        /\ \A j \in 1..(k - 1) : ~PyEq(seq[j], v)) - 1

\* An operation's outcome: what it wrote, how it ended, what it returned.
Ok(cmds, value) == [sent |-> cmds, raised |-> "none", ret |-> value]
Raise(cmds, exc) == [sent |-> cmds, raised |-> exc, ret |-> PyNone]

---------------------------------------------------------------------------
(* Text.  A string is the tuple of its characters, so lower() and strip()  *)
(* are computed character by character.                                    *)

UpperChars == <<"A", "B", "C", "D", "E", "F", "G", "H", "I", "J", "K", "L",
                "M", "N", "O", "P", "Q", "R", "S", "T", "U", "V", "W", "X",
                "Y", "Z">>
LowerChars == <<"a", "b", "c", "d", "e", "f", "g", "h", "i", "j", "k", "l",
                "m", "n", "o", "p", "q", "r", "s", "t", "u", "v", "w", "x",
                "y", "z">>

LowerChar(c) ==
    IF \E k \in 1..Len(UpperChars) : UpperChars[k] = c
    THEN LowerChars[CHOOSE k \in 1..Len(UpperChars) : UpperChars[k] = c]
    ELSE c

\* str.lower()
Lower(s) == [k \in 1..Len(s) |-> LowerChar(s[k])]

Whitespace == {" ", "\n", "\r", "\t"}

RECURSIVE LStrip(_)
LStrip(s) ==
    IF s # <<>> /\ Head(s) \in Whitespace THEN LStrip(Tail(s)) ELSE s

RECURSIVE RStrip(_)
RStrip(s) ==
    IF s # <<>> /\ s[Len(s)] \in Whitespace
    THEN RStrip(SubSeq(s, 1, Len(s) - 1))
    ELSE s

\* str.strip()
Strip(s) == RStrip(LStrip(s))

Digits == <<"0", "1", "2", "3", "4", "5", "6", "7", "8", "9">>
IsDigit(c) == \E k \in 1..10 : Digits[k] = c
DigitVal(c) == (CHOOSE k \in 1..10 : Digits[k] = c) - 1

RECURSIVE Decimal(_)
Decimal(s) ==
    IF s = <<>> THEN 0
    ELSE 10 * Decimal(SubSeq(s, 1, Len(s) - 1)) + DigitVal(s[Len(s)])

\* int(text) accepts an optionally signed, whitespace-padded run of digits
IsNumeral(s) ==
    LET t == Strip(s)
        u == IF t # <<>> /\ Head(t) \in {"-", "+"} THEN Tail(t) ELSE t
    IN  /\ u # <<>>
        /\ \A k \in 1..Len(u) : IsDigit(u[k])

ParseInt(s) ==
    LET t == Strip(s)
    IN  IF Head(t) = "-" THEN -Decimal(Tail(t))
        ELSE IF Head(t) = "+" THEN Decimal(Tail(t))
        ELSE Decimal(t)

\* int(text): the integer, or ValueError when the text is no numeral
IntOf(s) ==
    IF IsNumeral(s) THEN [raised |-> "none", val |-> ParseInt(s)]
    ELSE [raised |-> "ValueError", val |-> 0]

---------------------------------------------------------------------------
(* Enumerations and unit-tagged quantities.                                *)

Member(cls, name, value) ==
    [kind |-> "enum", cls |-> cls, name |-> name, value |-> value]

\* srs830.py: class FreqSource / Coupling / BufferMode (IntEnum)
FreqSource == [external |-> Member("FreqSource", "external", 0),
               internal |-> Member("FreqSource", "internal", 1)]
Coupling == [ac |-> Member("Coupling", "ac", 0),
             dc |-> Member("Coupling", "dc", 1)]
BufferMode == [one_shot |-> Member("BufferMode", "one_shot", 0),
               loop |-> Member("BufferMode", "loop", 1)]

\* tc200.py: class Mode / Sensor (flufl IntEnum)
TCMode == [normal |-> Member("TC200.Mode", "normal", 0),
           cycle |-> Member("TC200.Mode", "cycle", 1)]
Sensor == [ptc100 |-> Member("TC200.Sensor", "ptc100", 0),
           ptc1000 |-> Member("TC200.Sensor", "ptc1000", 1),
           th10k |-> Member("TC200.Sensor", "th10k", 2)]

Members(enum) == {enum[k] : k \in DOMAIN enum}

\* isinstance(v, <enumeration class>)
IsInstance(v, cls) == v.kind = "enum" /\ v.cls = cls

\* the names of the IntEnum members, spelled out
MemberNames ==
    [external |-> <<"e", "x", "t", "e", "r", "n", "a", "l">>,
     internal |-> <<"i", "n", "t", "e", "r", "n", "a", "l">>,
     ac |-> <<"a", "c">>, dc |-> <<"d", "c">>,
     one_shot |-> <<"o", "n", "e", "_", "s", "h", "o", "t">>,
     loop |-> <<"l", "o", "o", "p">>]

\* Class[key] of the standard enum module: the member NAMED key, KeyError
\* for every other key (an integer is no member's name)
EnumItem(enum, key) ==
    IF IsStr(key) /\ \E k \in DOMAIN enum : MemberNames[k] = key.chars
    THEN [raised |-> "none",
          val |-> enum[CHOOSE k \in DOMAIN enum : MemberNames[k] = key.chars]]
    ELSE [raised |-> "KeyError", val |-> PyNone]

\* Class(value) of the standard enum module: the member with that value,
\* or ValueError
EnumCall(enum, n) ==
    IF \E k \in DOMAIN enum : enum[k].value = n
    THEN [raised |-> "none",
          val |-> enum[CHOOSE k \in DOMAIN enum : enum[k].value = n]]
    ELSE [raised |-> "ValueError", val |-> PyNone]

\* A magnitude tagged with a unit.
Qty(mag, unit) == [kind |-> "qty", mag |-> mag, unit |-> unit]

\* The unit objects of the quantities package (pq.degC, ...).
Unit(name) == [kind |-> "unit", unit |-> name]

\* Size of each unit in the base unit of its dimension.
UnitScale == [degree |-> Rat(1, 1), arcminute |-> Rat(1, 60),
              V |-> Rat(1, 1), mV |-> Rat(1, 1000),
              Hz |-> Rat(1, 1), kHz |-> Rat(1000, 1),
              W |-> Rat(1, 1), mW |-> Rat(1, 1000), degC |-> Rat(1, 1)]

\* The dimension each unit measures; rescale between two dimensions raises
\* ValueError.
Dimension == [degree |-> "angle", arcminute |-> "angle",
              V |-> "voltage", mV |-> "voltage",
              Hz |-> "frequency", kHz |-> "frequency",
              W |-> "power", mW |-> "power", degC |-> "temperature"]

\* util_fns.assume_units: a bare value is tagged with the assumed unit, a
\* tagged value is left as it is.
assume_units(value, unit) ==
    IF value.kind = "qty" THEN value ELSE Qty(value, unit)

\* Quantity.rescale: the same quantity expressed in `unit`.
rescale(q, unit) ==
    Qty(Mul(q.mag, Div(UnitScale[q.unit], UnitScale[unit])), unit)

---------------------------------------------------------------------------
(* SRS830: constants and property setters (srs830.py).                     *)

\* 2.0**e
Pow2(e) == IF e >= 0 THEN Rat(2 ^ e, 1) ELSE Rat(1, 2 ^ (-e))

\* VALID_SAMPLE_RATES = [2.0**n for n in range(-4, 10)]
VALID_SAMPLE_RATES == [k \in 1..14 |-> Pow2(k - 5)]

Trigger == <<"t", "r", "i", "g", "g", "e", "r">>

\* SRS830.frequency_source (setter)
frequency_source_set(newval) ==
    IF ~IsInstance(newval, "FreqSource")
    THEN Raise(<<>>, "TypeError")
    ELSE Ok(<< <<"FMOD", newval.value>> >>, PyNone)

\* phase (setter) with the upper bound admitted: `newval > 730`
phase_set_closed_above(newval) ==
    LET v == rescale(assume_units(newval, "degree"), "degree").mag
    IN  IF Gt(v, PyInt(730)) \/ Lt(v, PyInt(-360))
        THEN Raise(<<>>, "ValueError")
        ELSE Ok(<< <<"PHAS", v>> >>, PyNone)

\* phase (setter) with the lower bound refused: `newval <= -360`
phase_set_open_below(newval) ==
    LET v == rescale(assume_units(newval, "degree"), "degree").mag
    IN  IF Ge(v, PyInt(730)) \/ ~Gt(v, PyInt(-360))
        THEN Raise(<<>>, "ValueError")
        ELSE Ok(<< <<"PHAS", v>> >>, PyNone)

\* SRS830.phase (setter)
phase_set(newval) ==
    LET v == rescale(assume_units(newval, "degree"), "degree").mag
    IN  IF Ge(v, PyInt(730)) \/ Lt(v, PyInt(-360))
        THEN Raise(<<>>, "ValueError")
        ELSE Ok(<< <<"PHAS", v>> >>, PyNone)

\* amplitude (setter) with the upper bound refused: `newval >= 5`
amplitude_set_open_above(newval) ==
    LET v == rescale(assume_units(newval, "V"), "V").mag
    IN  IF Ge(v, PyInt(5)) \/ Lt(v, Rat(4, 1000))
        THEN Raise(<<>>, "ValueError")
        ELSE Ok(<< <<"SLVL", v>> >>, PyNone)

\* SRS830.amplitude (setter)
amplitude_set(newval) ==
    LET v == rescale(assume_units(newval, "V"), "V").mag
    IN  IF Gt(v, PyInt(5)) \/ Lt(v, Rat(4, 1000))
        THEN Raise(<<>>, "ValueError")
        ELSE Ok(<< <<"SLVL", v>> >>, PyNone)

\* SRS830.coupling (setter)
coupling_set(newval) ==
    IF ~IsInstance(newval, "Coupling")
    THEN Raise(<<>>, "TypeError")
    ELSE Ok(<< <<"ICPL", newval.value>> >>, PyNone)

\* SRS830.sample_rate (setter): the 'trigger' branch writes and falls
\* through to the membership test.
sample_rate_set(newval) ==
    LET v == IF IsStr(newval) THEN PyStr(Lower(newval.chars)) ELSE newval
        first == IF IsStr(v) /\ v.chars = Trigger
                 THEN << <<"SRAT", 14>> >>
                 ELSE <<>>
    IN  IF Contains(VALID_SAMPLE_RATES, v)
        THEN Ok(first \o << <<"SRAT", IndexOf(VALID_SAMPLE_RATES, v)>> >>,
                PyNone)
        ELSE Raise(first, "ValueError")

\* SRS830.buffer_mode (setter)
buffer_mode_set(newval) ==
    IF ~IsInstance(newval, "BufferMode")
    THEN Raise(<<>>, "TypeError")
    ELSE Ok(<< <<"SEND", newval.value>> >>, PyNone)

\* SRS830.data_transfer (setter)
data_transfer_set(newval) ==
    Ok(<< <<"FAST", IF newval THEN 2 ELSE 0>> >>, PyNone)

\* SRS830.clear_data_buffer / start_scan / pause
clear_data_buffer == Ok(<< <<"REST">> >>, PyNone)
start_scan == Ok(<< <<"STRD">> >>, PyNone)
pause == Ok(<< <<"PAUS">> >>, PyNone)

\* Sequential composition: `second` runs only if `first` did not raise.
Then(first, second) ==
    IF first.raised # "none" THEN first
    ELSE [second EXCEPT !.sent = first.sent \o second.sent]

\* SRS830.init
init(sample_rate, buffer_mode) ==
    Then(clear_data_buffer,
         Then(sample_rate_set(sample_rate), buffer_mode_set(buffer_mode)))

\* SRS830.start_data_transfer
start_data_transfer == Then(data_transfer_set(TRUE), start_scan)

---------------------------------------------------------------------------
(* SRS830: the Mode enumeration and the per-operation code tables.         *)

\* class Mode(Enum): each member's name, spelled out
ModeNames ==
    [x |-> <<"x">>, y |-> <<"y">>, r |-> <<"r">>,
     theta |-> <<"t", "h", "e", "t", "a">>,
     xnoise |-> <<"x", "n", "o", "i", "s", "e">>,
     ynoise |-> <<"y", "n", "o", "i", "s", "e">>,
     aux1 |-> <<"a", "u", "x", "1">>, aux2 |-> <<"a", "u", "x", "2">>,
     aux3 |-> <<"a", "u", "x", "3">>, aux4 |-> <<"a", "u", "x", "4">>,
     ref |-> <<"r", "e", "f">>,
     ch1 |-> <<"c", "h", "1">>, ch2 |-> <<"c", "h", "2">>,
     none |-> <<"n", "o", "n", "e">>]

Mode == [k \in DOMAIN ModeNames |-> Member("Mode", k, k)]

\* SRS830.Mode[name]: the member of that name, or KeyError
ModeByName(chars) ==
    IF \E k \in DOMAIN ModeNames : ModeNames[k] = chars
    THEN [raised |-> "none",
          val |-> Mode[CHOOSE k \in DOMAIN ModeNames : ModeNames[k] = chars]]
    ELSE [raised |-> "KeyError", val |-> PyNone]

\* `if isinstance(mode, str): mode = mode.lower(); mode = SRS830.Mode[mode]`
AsMode(v) ==
    IF IsStr(v) THEN ModeByName(Lower(v.chars))
    ELSE [raised |-> "none", val |-> v]

\* `key in table` and `table[key]` for a dict keyed by Mode members: a key
\* that is no Mode member (an integer, say) is in no table.
InDict(table, key) == IsInstance(key, "Mode") /\ key.name \in DOMAIN table
DictGet(table, key) == table[key.name]

XYR_MODE_MAP == [x |-> 1, y |-> 2, r |-> 3]

data_snap_modes ==
    [x |-> 1, y |-> 2, r |-> 3, theta |-> 4, aux1 |-> 5, aux2 |-> 6,
     aux3 |-> 7, aux4 |-> 8, ref |-> 9, ch1 |-> 10, ch2 |-> 11]

valid_read_data_buffer == [ch1 |-> 1, ch2 |-> 2]

valid_channel_display ==
    << [x |-> 0, r |-> 1, xnoise |-> 2, aux1 |-> 3, aux2 |-> 4],
       [y |-> 0, theta |-> 1, ynoise |-> 2, aux3 |-> 3, aux4 |-> 4] >>

valid_channel_ratio ==
    << [none |-> 0, aux1 |-> 1, aux2 |-> 2],
       [none |-> 0, aux3 |-> 1, aux4 |-> 2] >>

valid_channel == [ch1 |-> 1, ch2 |-> 2]

\* SRS830.data_snap.  `reply` is the device's answer to SNAP?, held as the
\* tuple of its comma-separated fields.
data_snap(mode1, mode2, reply) ==
    LET m1 == AsMode(mode1)
        \* `mode2 = mode1.lower()`: mode1 is no longer a string here
        m2 == IF ~IsStr(mode2) THEN [raised |-> "none", val |-> mode2]
              ELSE IF ~IsStr(m1.val)
                   THEN [raised |-> "AttributeError", val |-> PyNone]
                   ELSE ModeByName(Lower(m1.val.chars))
    IN  IF m1.raised # "none" THEN Raise(<<>>, m1.raised)
        ELSE IF m2.raised # "none" THEN Raise(<<>>, m2.raised)
        ELSE IF ~InDict(data_snap_modes, m1.val)
                \/ ~InDict(data_snap_modes, m2.val)
             THEN Raise(<<>>, "ValueError")
        ELSE IF ~InDict(XYR_MODE_MAP, m1.val) \/ ~InDict(XYR_MODE_MAP, m2.val)
             THEN Raise(<<>>, "KeyError")
        ELSE LET c1 == DictGet(XYR_MODE_MAP, m1.val)
                 c2 == DictGet(XYR_MODE_MAP, m2.val)
             IN  IF c1 = c2 THEN Raise(<<>>, "ValueError")
                 ELSE Ok(<< <<"SNAP?", c1, c2>> >>, PyList(reply))

\* SRS830.set_channel_display
set_channel_display(channel, display, ratio) ==
    LET ch == AsMode(channel)
        di == AsMode(display)
        ra == AsMode(ratio)
    IN  IF ch.raised # "none" THEN Raise(<<>>, ch.raised)
        ELSE IF di.raised # "none" THEN Raise(<<>>, di.raised)
        ELSE IF ra.raised # "none" THEN Raise(<<>>, ra.raised)
        ELSE IF ~InDict(valid_channel, ch.val) THEN Raise(<<>>, "ValueError")
        ELSE LET c == DictGet(valid_channel, ch.val)
             IN  IF ~InDict(valid_channel_display[c], di.val)
                 THEN Raise(<<>>, "ValueError")
                 ELSE IF ~InDict(valid_channel_ratio[c], ra.val)
                 THEN Raise(<<>>, "ValueError")
                 ELSE LET d == DictGet(valid_channel_display[c], di.val)
                          \* the ratio table is indexed by the display code
                          key == PyInt(d)
                      IN  IF ~InDict(valid_channel_ratio[c], key)
                          THEN Raise(<<>>, "KeyError")
                          ELSE Ok(<< <<"DDEF", c, d,
                                       DictGet(valid_channel_ratio[c], key)>> >>,
                                  PyNone)

---------------------------------------------------------------------------
(* SRS830.set_offset_expand.  Its numeric arguments carry their Python     *)
(* type, which the function tests.                                         *)

TypedNum(type, num) == [kind |-> type, num |-> num]

\* isinstance(v, int) / isinstance(v, float)
IsInt(v) == v.kind = "int"
IsFloat(v) == v.kind = "float"

\* valid = [1, 10, 100]
valid_expand == <<PyInt(1), PyInt(10), PyInt(100)>>

\* SRS830.set_offset_expand
set_offset_expand(mode, offset, expand) ==
    LET m == AsMode(mode)
    IN  IF m.raised # "none" THEN Raise(<<>>, m.raised)
        ELSE IF ~InDict(XYR_MODE_MAP, m.val) THEN Raise(<<>>, "ValueError")
        ELSE IF ~IsInt(offset) \/ ~IsFloat(offset)
             THEN Raise(<<>>, "TypeError")
        ELSE IF ~IsInt(expand) \/ ~IsFloat(expand)
             THEN Raise(<<>>, "TypeError")
        ELSE IF Gt(offset.num, PyInt(105)) \/ Lt(offset.num, PyInt(-105))
             THEN Raise(<<>>, "ValueError")
        ELSE IF Contains(valid_expand, expand.num)
             THEN Ok(<< <<"OEXP", DictGet(XYR_MODE_MAP, m.val), offset.num,
                          IndexOf(valid_expand, expand.num)>> >>, PyNone)
        ELSE Raise(<<>>, "ValueError")

---------------------------------------------------------------------------
(* TC200: reply classification and property setters (tc200.py).            *)

\* TC200.__init__: self.terminator, self.end_terminator
terminator == <<"\r">>
end_terminator == <<">">>

CMD_NOT_DEFINED ==
    <<"C", "M", "D", "_", "N", "O", "T", "_", "D", "E", "F", "I", "N", "E",
      "D">>
CMD_ARG_INVALID ==
    <<"C", "M", "D", "_", "A", "R", "G", "_", "I", "N", "V", "A", "L", "I",
      "D">>

StatQuery == <<"s", "t", "a", "t", "?">>

\* str.find(sub) # -1
Found(s, sub) ==
    \E k \in 1..(Len(s) - Len(sub) + 1) : SubSeq(s, k, k + Len(sub) - 1) = sub

\* str.replace(sub, ""): every occurrence removed, left to right
RECURSIVE Remove(_, _)
Remove(s, sub) ==
    IF Len(s) < Len(sub) THEN s
    ELSE IF SubSeq(s, 1, Len(sub)) = sub
         THEN Remove(SubSeq(s, Len(sub) + 1, Len(s)), sub)
         ELSE <<Head(s)>> \o Remove(Tail(s), sub)

\* check_command with the two tests in the other order: CMD_ARG_INVALID
\* is looked for first
check_command_arg_first(command, response) ==
    IF ~Found(response, CMD_ARG_INVALID)
    THEN IF ~Found(response, CMD_NOT_DEFINED)
         THEN Remove(Remove(Remove(response, command), terminator),
                     end_terminator)
         ELSE CMD_NOT_DEFINED
    ELSE CMD_ARG_INVALID
\* TC200.check_command, on the text `response` that self.read() returned
check_command(command, response) ==
    IF ~Found(response, CMD_NOT_DEFINED)
    THEN IF ~Found(response, CMD_ARG_INVALID)
         THEN Remove(Remove(Remove(response, command), terminator),
                     end_terminator)
         ELSE CMD_ARG_INVALID
    ELSE CMD_NOT_DEFINED

FreqQuery == <<"f", "r", "e", "q", "?">>

\* float(text) for plain decimal text: white space around, a sign, digits
\* with at most one point.  (Exponents, inf and nan, which float() also
\* reads, are not among the replies drawn.)
Unsigned(s) ==
    LET t == Strip(s)
    IN  IF t # <<>> /\ Head(t) \in {"-", "+"} THEN Tail(t) ELSE t

Points(u) == {k \in 1..Len(u) : u[k] = "."}

IsFloatText(s) ==
    LET u == Unsigned(s)
    IN  /\ Cardinality(Points(u)) <= 1
        /\ \A k \in 1..Len(u) : IsDigit(u[k]) \/ u[k] = "."
        /\ \E k \in 1..Len(u) : IsDigit(u[k])

ParseFloat(s) ==
    LET u == Unsigned(s)
        dot == IF Points(u) = {} THEN Len(u) + 1
               ELSE CHOOSE k \in Points(u) : TRUE
        whole == SubSeq(u, 1, dot - 1)
        frac == SubSeq(u, dot + 1, Len(u))
        num == Decimal(whole) * 10 ^ Len(frac) + Decimal(frac)
    IN  IF Head(Strip(s)) = "-" THEN Rat(-num, 10 ^ Len(frac))
        ELSE Rat(num, 10 ^ Len(frac))

\* TC200.frequency (getter)
frequency_get(response) ==
    LET r == check_command(FreqQuery, response)
    IN  IF r = CMD_NOT_DEFINED THEN Ok(<< <<"freq?">> >>, PyNone)
        ELSE IF ~IsFloatText(r) THEN Raise(<< <<"freq?">> >>, "ValueError")
        ELSE Ok(<< <<"freq?">> >>, Qty(ParseFloat(r), "Hz"))
\* TC200.enable (getter)
enable_get(response) ==
    LET r == check_command(StatQuery, response)
    IN  IF r = CMD_NOT_DEFINED THEN Ok(<< <<"stat?">> >>, PyNone)
        ELSE IF ~IsNumeral(r) THEN Raise(<< <<"stat?">> >>, "ValueError")
        ELSE Ok(<< <<"stat?">> >>, PyBool(ParseInt(r) % 2 = 1))

\* n << k on integers
ShiftLeft(n, k) == n * 2 ^ k

\* TC200.mode (getter).  TC200.Mode is a flufl.enum IntEnum, whose item
\* access finds the member by its value.
mode_get(response) ==
    LET r == check_command(StatQuery, response)
        n == IntOf(r)
        m == EnumCall(TCMode, ShiftLeft(n.val, 1) % 2)
    IN  IF r = CMD_NOT_DEFINED THEN Ok(<< <<"stat?">> >>, PyNone)
        ELSE IF n.raised # "none" THEN Raise(<< <<"stat?">> >>, n.raised)
        ELSE IF m.raised # "none" THEN Raise(<< <<"stat?">> >>, m.raised)
        ELSE Ok(<< <<"stat?">> >>, m.val)

\* TC200.degrees (getter): `response << 4` shifts the text of the reply,
\* which str does not support
degrees_get(response) ==
    LET r == check_command(StatQuery, response)
    IN  IF r = CMD_NOT_DEFINED THEN Ok(<< <<"stat?">> >>, PyNone)
        ELSE Raise(<< <<"stat?">> >>, "TypeError")
\* Python truth of a getter's result (None is false)
Truthy(v) == v.kind = "bool" /\ v.b

\* TC200.frequency (setter)
frequency_set(newval) ==
    LET v == rescale(assume_units(newval, "Hz"), "Hz").mag
    IN  IF Lt(v, PyInt(5)) THEN Raise(<<>>, "ValueError")
        ELSE IF Gt(v, PyInt(150)) THEN Raise(<<>>, "ValueError")
        ELSE Ok(<< <<"freq=", v>> >>, PyNone)

\* TC200.mode (setter): `newval.enum` exists on enumeration members only
mode_set(newval) ==
    IF newval.kind # "enum" THEN Raise(<<>>, "AttributeError")
    ELSE IF newval.cls # "TC200.Mode" THEN Raise(<<>>, "TypeError")
    ELSE Ok(<< <<"mode=", newval.name>> >>, PyNone)

\* the enable setter without its elif branch: it can switch on only
enable_set_on_only(newval, response) ==
    IF ~IsBool(newval) THEN Raise(<<>>, "TypeError")
    ELSE IF ~newval.b THEN Ok(<<>>, PyNone)
    ELSE LET cur == enable_get(response)
         IN  IF cur.raised # "none" THEN cur
             ELSE IF ~Truthy(cur.ret)
                  THEN Ok(cur.sent \o << <<"ens">> >>, PyNone)
             ELSE Ok(cur.sent, PyNone)
\* TC200.enable (setter): self.enable is read once, whichever branch runs
enable_set(newval, response) ==
    IF ~IsBool(newval) THEN Raise(<<>>, "TypeError")
    ELSE LET cur == enable_get(response)
         IN  IF cur.raised # "none" THEN cur
             ELSE IF newval.b /\ ~Truthy(cur.ret)
                  THEN Ok(cur.sent \o << <<"ens">> >>, PyNone)
             ELSE IF ~newval.b /\ Truthy(cur.ret)
                  THEN Ok(cur.sent \o << <<"ens">> >>, PyNone)
             ELSE Ok(cur.sent, PyNone)

\* TC200.p / i / d / beta (setters)
p_set(newval) ==
    IF Lt(newval, PyInt(1)) THEN Raise(<<>>, "ValueError")
    ELSE IF Gt(newval, PyInt(250)) THEN Raise(<<>>, "ValueError")
    ELSE Ok(<< <<"pvalue=", newval>> >>, PyNone)

i_set(newval) ==
    IF Lt(newval, PyInt(0)) THEN Raise(<<>>, "ValueError")
    ELSE IF Gt(newval, PyInt(250)) THEN Raise(<<>>, "ValueError")
    ELSE Ok(<< <<"ivalue=", newval>> >>, PyNone)

d_set(newval) ==
    IF Lt(newval, PyInt(0)) THEN Raise(<<>>, "ValueError")
    ELSE IF Gt(newval, PyInt(250)) THEN Raise(<<>>, "ValueError")
    ELSE Ok(<< <<"dvalue=", newval>> >>, PyNone)

beta_set(newval) ==
    IF Lt(newval, PyInt(2000)) THEN Raise(<<>>, "ValueError")
    ELSE IF Gt(newval, PyInt(6000)) THEN Raise(<<>>, "ValueError")
    ELSE Ok(<< <<"beta=", newval>> >>, PyNone)

\* TC200.degrees (setter)
degrees_set(newval) ==
    IF newval = Unit("degC") THEN Ok(<< <<"unit=c">> >>, PyNone)
    ELSE IF newval = Unit("degF") THEN Ok(<< <<"unit=f">> >>, PyNone)
    ELSE IF newval = Unit("degK") THEN Ok(<< <<"unit=k">> >>, PyNone)
    ELSE Raise(<<>>, "TypeError")

\* TC200.sensor (setter)
sensor_set(newval) ==
    IF newval.kind # "enum" THEN Raise(<<>>, "AttributeError")
    ELSE IF newval.cls # "TC200.Sensor" THEN Raise(<<>>, "TypeError")
    ELSE Ok(<< <<"sns=", newval.name>> >>, PyNone)

---------------------------------------------------------------------------
(* TC200: max_power and max_temperature (tc200.py).  The four functions    *)
(* are modelled as they are written, and the two class attributes as the   *)
(* decorators of the class body leave them.                                *)

PowerQuery == <<"P", "M", "A", "X", "?">>
TemperatureQuery == <<"T", "M", "A", "X", "?">>

\* the getter written under `def max_power` (lines 263-273)
max_power_fget(response) ==
    LET r == check_command(PowerQuery, response)
    IN  IF r = CMD_NOT_DEFINED THEN Ok(<< <<"PMAX?">> >>, PyNone)
        ELSE IF ~IsFloatText(r) THEN Raise(<< <<"PMAX?">> >>, "ValueError")
        ELSE Ok(<< <<"PMAX?">> >>, Qty(ParseFloat(r), "W"))

\* the setter decorated with @max_power.setter (lines 275-282)
max_power_fset(newval) ==
    LET q == assume_units(newval, "W")
        v == rescale(q, "W").mag
    IN  IF Dimension[q.unit] # Dimension["W"] THEN Raise(<<>>, "ValueError")
        ELSE IF Lt(v, Rat(1, 10)) THEN Raise(<<>>, "ValueError")
        ELSE IF Gt(v, PyInt(18)) THEN Raise(<<>>, "ValueError")
        ELSE Ok(<< <<"PMAX=", v>> >>, PyNone)

\* the getter written under `def max_temperature` (lines 284-294)
max_temperature_fget(response) ==
    LET r == check_command(TemperatureQuery, response)
    IN  IF r = CMD_NOT_DEFINED THEN Ok(<< <<"TMAX?">> >>, PyNone)
        ELSE IF ~IsFloatText(r) THEN Raise(<< <<"TMAX?">> >>, "ValueError")
        ELSE Ok(<< <<"TMAX?">> >>, Qty(ParseFloat(r), "degC"))

\* the setter decorated with @max_temperature.setter (lines 296-303); the
\* function it decorates is named max_power
max_temperature_fset(newval) ==
    LET q == assume_units(newval, "degC")
        v == rescale(q, "degC").mag
    IN  IF Dimension[q.unit] # Dimension["degC"]
        THEN Raise(<<>>, "ValueError")
        ELSE IF Lt(v, PyInt(20)) THEN Raise(<<>>, "ValueError")
        ELSE IF Gt(v, PyInt(205)) THEN Raise(<<>>, "ValueError")
        ELSE Ok(<< <<"TMAX=", v>> >>, PyNone)

\* property(fget), and prop.setter(fset): a copy of prop with that setter
Property(fget) == [fget |-> fget, fset |-> "none"]
WithSetter(prop, fset) == [prop EXCEPT !.fset = fset]

\* The class body, statement by statement: each `def` binds the NAME of
\* the function it defines to what its decorator returns.
TC200Class ==
    LET a == [max_power |-> Property("max_power_fget")]
        b == [a EXCEPT !.max_power = WithSetter(a.max_power, "max_power_fset")]
        c == [max_power |-> b.max_power,
              max_temperature |-> Property("max_temperature_fget")]
        \* `@max_temperature.setter` over `def max_power`
        d == [c EXCEPT !.max_power =
                WithSetter(c.max_temperature, "max_temperature_fset")]
    IN  d

\* Reading and assigning an attribute that is a property.
PropertyGet(prop, response) ==
    CASE prop.fget = "max_power_fget" -> max_power_fget(response)
      [] prop.fget = "max_temperature_fget" -> max_temperature_fget(response)

PropertySet(prop, newval) ==
    CASE prop.fset = "none" -> Raise(<<>>, "AttributeError")
      [] prop.fset = "max_power_fset" -> max_power_fset(newval)
      [] prop.fset = "max_temperature_fset" -> max_temperature_fset(newval)

---------------------------------------------------------------------------
(* SRS830: property getters (srs830.py).  `reply` is the text the device   *)
(* answered the getter's query with.                                       *)

\* SRS830.frequency_source (getter): self.FreqSource[int(...)]
frequency_source_get(reply) ==
    LET n == IntOf(reply)
        m == EnumItem(FreqSource, PyInt(n.val))
    IN  IF n.raised # "none" THEN Raise(<< <<"FMOD?">> >>, n.raised)
        ELSE IF m.raised # "none" THEN Raise(<< <<"FMOD?">> >>, m.raised)
        ELSE Ok(<< <<"FMOD?">> >>, m.val)

\* SRS830.input_shield_ground (getter / setter)
input_shield_ground_get(reply) ==
    LET n == IntOf(reply)
    IN  IF n.raised # "none" THEN Raise(<< <<"IGND?">> >>, n.raised)
        ELSE Ok(<< <<"IGND?">> >>, PyBool(n.val = 1))

input_shield_ground_set(newval) ==
    Ok(<< <<"IGND", IF newval THEN 1 ELSE 0>> >>, PyNone)

\* SRS830.coupling (getter): SRS830.Coupling(int(...))
coupling_get(reply) ==
    LET n == IntOf(reply)
        m == EnumCall(Coupling, n.val)
    IN  IF n.raised # "none" THEN Raise(<< <<"ICPL?">> >>, n.raised)
        ELSE IF m.raised # "none" THEN Raise(<< <<"ICPL?">> >>, m.raised)
        ELSE Ok(<< <<"ICPL?">> >>, m.val)

\* list[k]: k counts from the end when negative, IndexError outside
ListItem(seq, k) ==
    IF 0 <= k /\ k < Len(seq) THEN [raised |-> "none", val |-> seq[k + 1]]
    ELSE IF -Len(seq) <= k /\ k < 0
         THEN [raised |-> "none", val |-> seq[Len(seq) + k + 1]]
    ELSE [raised |-> "IndexError", val |-> PyNone]

\* SRS830.sample_rate (getter)
sample_rate_get(reply) ==
    LET n == IntOf(reply)
        r == ListItem(VALID_SAMPLE_RATES, n.val)
    IN  IF n.raised # "none" THEN Raise(<< <<"SRAT?">> >>, n.raised)
        ELSE IF r.raised # "none" THEN Raise(<< <<"SRAT?">> >>, r.raised)
        ELSE Ok(<< <<"SRAT?">> >>, Qty(r.val, "Hz"))

\* SRS830.buffer_mode (getter): SRS830.BufferMode(int(...))
buffer_mode_get(reply) ==
    LET n == IntOf(reply)
        m == EnumCall(BufferMode, n.val)
    IN  IF n.raised # "none" THEN Raise(<< <<"SEND?">> >>, n.raised)
        ELSE IF m.raised # "none" THEN Raise(<< <<"SEND?">> >>, m.raised)
        ELSE Ok(<< <<"SEND?">> >>, m.val)

\* SRS830.data_transfer (getter)
data_transfer_get(reply) ==
    LET n == IntOf(reply)
    IN  IF n.raised # "none" THEN Raise(<< <<"FAST?">> >>, n.raised)
        ELSE Ok(<< <<"FAST?">> >>, PyBool(n.val = 2))

---------------------------------------------------------------------------
(* SRS830: construction, point count, buffer read, measurement.            *)

Comm(type) == [kind |-> "comm", type |-> type]

\* SRS830.__init__
construct(outx_mode, filelike) ==
    IF PyEq(outx_mode, PyInt(1)) THEN Ok(<< <<"OUTX", 1>> >>, PyNone)
    ELSE IF PyEq(outx_mode, PyInt(2)) THEN Ok(<< <<"OUTX", 2>> >>, PyNone)
    ELSE IF filelike.type = "GPIBCommunicator"
         THEN Ok(<< <<"OUTX", 1>> >>, PyNone)
    ELSE IF filelike.type = "SerialCommunicator"
         THEN Ok(<< <<"OUTX", 2>> >>, PyNone)
    ELSE Raise(<<>>, "IOError")

\* Python truth of `resp` in `while not resp and i < 10`
Falsy(v) == v.kind = "none" \/ (v.kind = "str" /\ v.chars = <<>>)

\* the loop condition with one attempt too many: `i <= 10`
ndp_continue_eleven(r, n) == Falsy(r) /\ n <= 10

\* num_data_points: the loop condition
ndp_continue(r, n) == Falsy(r) /\ n < 10

\* num_data_points: what follows the loop
ndp_result(r) ==
    IF Falsy(r) THEN Raise(<<>>, "IOError")
    ELSE IF ~IsNumeral(r.chars) THEN Raise(<<>>, "ValueError")
    ELSE Ok(<<>>, PyInt(ParseInt(r.chars)))

\* read_data_buffer: the channel argument resolved to its code
rdb_channel(channel) ==
    LET c == AsMode(channel)
    IN  IF c.raised # "none" THEN c
        ELSE IF ~InDict(valid_read_data_buffer, c.val)
             THEN [raised |-> "ValueError", val |-> PyNone]
        ELSE [raised |-> "none", val |-> DictGet(valid_read_data_buffer, c.val)]

\* take_measurement: ceil(num_samples / sample_rate)
sample_time(sample_rate, num_samples) == Ceil(Div(num_samples, sample_rate))

\* take_measurement with the sample-count check made after init()
tm_prepare_check_late(sample_rate, num_samples) ==
    IF ~IsNum(sample_rate) THEN Raise(<<>>, "TypeError")
    ELSE IF sample_rate.n = 0 THEN Raise(<<>>, "ZeroDivisionError")
    ELSE Then(init(sample_rate, BufferMode.one_shot),
              IF Gt(num_samples, PyInt(16383))
              THEN Raise(<<>>, "ValueError")
              ELSE start_data_transfer)

\* take_measurement up to the sleep: the sample-count check, the wait
\* computation, init() and start_data_transfer()
tm_prepare(sample_rate, num_samples) ==
    IF Gt(num_samples, PyInt(16383)) THEN Raise(<<>>, "ValueError")
    ELSE IF ~IsNum(sample_rate) THEN Raise(<<>>, "TypeError")
    ELSE IF sample_rate.n = 0 THEN Raise(<<>>, "ZeroDivisionError")
    ELSE Then(init(sample_rate, BufferMode.one_shot), start_data_transfer)

---------------------------------------------------------------------------
(* The values the calls are made with and the replies the devices give.    *)

Around(b) == {b + k : k \in (-Spread)..Spread}

Text_ac == <<"a", "c">>
Text_foo == <<"f", "o", "o">>

StrayValues == {PyInt(0), PyInt(1), PyStr(Text_ac)}

EnumInputs ==
    Members(FreqSource) \cup Members(Coupling) \cup Members(BufferMode)
    \cup Members(TCMode) \cup Members(Sensor) \cup StrayValues

PhaseInputs ==
    {PyInt(v) : v \in Around(-360) \cup Around(730) \cup {0}}
    \cup {Qty(PyInt(v), "degree") : v \in Around(-360) \cup Around(730)}
    \cup {Qty(PyInt(v), "arcminute") :
            v \in Around(-360 * 60) \cup Around(730 * 60)}

AmplitudeInputs ==
    {Rat(v, 10000) : v \in Around(40) \cup Around(50000)}
    \cup {Rat(5001, 1000), PyInt(1)}
    \cup {Qty(Rat(v, 10000), "V") : v \in Around(40) \cup Around(50000)}
    \cup {Qty(Rat(v, 10), "mV") : v \in Around(40) \cup Around(50000)}

SampleRateInputs ==
    {VALID_SAMPLE_RATES[k] : k \in 1..14}
    \cup {PyInt(0), PyInt(3), Rat(1, 32), PyInt(1024)}
    \cup {PyStr(Trigger),
          PyStr(<<"T", "R", "I", "G", "G", "E", "R">>),
          PyStr(<<"T", "r", "i", "g", "g", "e", "r">>),
          PyStr(Text_foo)}

NumSamplesInputs == {PyInt(10)} \cup {PyInt(v) : v \in Around(16383)}

\* Replies to SPTS?: nothing, white space only, a count (bare or padded),
\* and text that is no count.
PointReplies ==
    {<<>>, <<"\n">>, <<"1", "2">>, <<" ", "1", "2", "\n">>, <<"x">>}

\* Replies to TRCA?, as the tuple of their comma-separated fields.
BufferReplies == {<<>>, <<Rat(1, 2), Rat(-3, 4)>>}

\* Replies to SNAP?, as the tuple of their comma-separated fields.
SnapReplies == {<<Rat(1, 2), Rat(-3, 4)>>, <<PyInt(0), PyInt(7)>>}

ModeStrings ==
    {PyStr(ModeNames[k]) : k \in DOMAIN ModeNames}
    \cup {PyStr(<<"X">>), PyStr(<<"Y">>), PyStr(<<"T", "h", "e", "t", "A">>),
          PyStr(<<"C", "H", "1">>), PyStr(<<"A", "U", "X", "3">>),
          PyStr(<<"N", "o", "n", "e">>), PyStr(Text_foo)}

ModeInputs == Members(Mode) \cup ModeStrings \cup {PyInt(1)}

ChannelInputs ==
    {Mode.ch1, Mode.ch2, Mode.x, PyStr(ModeNames.ch1), PyStr(ModeNames.ch2),
     PyStr(<<"C", "H", "1">>), PyStr(Text_foo)}

RECURSIVE Numeral(_)
Numeral(n) ==
    IF n < 10 THEN <<Digits[n + 1]>>
    ELSE Numeral(n \div 10) \o <<Digits[(n % 10) + 1]>>

\* What the TC200 answers to stat?: the status word between the command
\* echo and the prompt, a rejection, or nothing.
StatReplies ==
    {Numeral(n) \o <<"\r">> \o <<">">> : n \in 0..MaxStatus}
    \cup {StatQuery \o <<"\r">> \o Numeral(n) \o <<"\r">> \o <<">">> :
            n \in 0..MaxStatus}
    \cup {CMD_NOT_DEFINED \o <<"\r">> \o <<">">>,
          CMD_ARG_INVALID \o <<"\r">> \o <<">">>,
          <<">">>}

BoolInputs == {PyBool(TRUE), PyBool(FALSE), PyInt(1), PyStr(Text_ac)}

GainInputs == {PyInt(v) : v \in Around(0) \cup Around(1) \cup Around(250)}

BetaInputs == {PyInt(v) : v \in Around(2000) \cup Around(6000)}

FrequencyInputs ==
    {PyInt(v) : v \in Around(5) \cup Around(150)}
    \cup {Qty(PyInt(v), "Hz") : v \in Around(5) \cup Around(150)}
    \cup {Qty(Rat(v, 1000), "kHz") : v \in Around(5) \cup Around(150)}
    \cup {Qty(PyInt(1), "kHz"), Rat(49, 10)}

DegreesInputs ==
    {Unit("degC"), Unit("degF"), Unit("degK"), Unit("degree"),
     PyStr(<<"c">>), PyInt(0)}

---------------------------------------------------------------------------
OffsetInputs ==
    {TypedNum("int", PyInt(v)) : v \in Around(-105) \cup Around(105) \cup {0}}
    \cup {TypedNum("float", Rat(v, 2)) : v \in Around(-210) \cup Around(210)}

ExpandInputs ==
    {TypedNum("int", PyInt(v)) : v \in {1, 10, 100, 0, 2, 1000}}
    \cup {TypedNum("float", PyInt(v)) : v \in {1, 10, 100}}

---------------------------------------------------------------------------
\* The commands check_command is called with.
Commands ==
    {[name |-> "freq?", chars |-> FreqQuery],
     [name |-> "stat?", chars |-> StatQuery]}

\* What a TC200 reply carries between the command echo and the prompt.
Payloads == {<<"2", "0">>, <<"7", ".", "5">>, <<"3">>, <<>>}

\* A payload as the device frames it: followed by the prompt, with or
\* without the echo of the command before it.
Framed(command, p) ==
    {p \o <<"\r", ">">>,
     command \o <<"\r">> \o p \o <<"\r", ">">>,
     command \o p \o <<">">>}

Blank == <<" ">>

\* Replies that carry an error word: alone, after an echo, with digits
\* around it, and both error words in either order.
ErrorReplies ==
    {CMD_NOT_DEFINED \o <<"\r", ">">>,
     FreqQuery \o <<"\r">> \o CMD_NOT_DEFINED \o <<"\r", ">">>,
     <<"1", "2">> \o Blank \o CMD_NOT_DEFINED \o Blank \o <<"3">>,
     CMD_ARG_INVALID \o <<"\r", ">">>,
     <<"1", "2">> \o Blank \o CMD_ARG_INVALID \o <<"\r", ">">>,
     CMD_ARG_INVALID \o Blank \o CMD_NOT_DEFINED \o <<"\r", ">">>,
     CMD_NOT_DEFINED \o Blank \o CMD_ARG_INVALID \o <<"4", "\r", ">">>}

RawReplies ==
    ErrorReplies
    \cup UNION {Framed(c.chars, p) : c \in Commands, p \in Payloads}
\* Values assigned to max_power and max_temperature: around the bounds of
\* both ranges, bare and with a unit.
LimitInputs ==
    {Rat(v, 10) : v \in Around(1) \cup Around(180)}
    \cup {PyInt(v) : v \in Around(20) \cup Around(205) \cup {10, 100}}
    \cup {Qty(Rat(v, 10), "W") : v \in Around(1) \cup Around(180)}
    \cup {Qty(PyInt(v), "mW") : v \in Around(100) \cup Around(18000)}
    \cup {Qty(PyInt(v), "degC") : v \in Around(20) \cup Around(205)}

\* Replies to PMAX? and TMAX?.
LimitReplies ==
    ErrorReplies
    \cup UNION {Framed(c, p) : c \in {PowerQuery, TemperatureQuery},
                               p \in Payloads}
(* The state machine.                                                      *)

Idle == pc = "idle"

\* The locals of the multi-step calls, as a call finds them.
FreshLocals ==
    /\ caller' = "none" /\ chan' = 0 /\ i' = 0 /\ resp' = PyNone
    /\ npts' = 0 /\ slept' = 0 /\ flushed' = "no" /\ data' = <<>>

\* A call that runs to its end in one step.
Complete(name, a, out) ==
    /\ op' = name /\ args' = a
    /\ sent' = out.sent /\ raised' = out.raised /\ ret' = out.ret
    /\ pc' = "done"
    /\ FreshLocals
    /\ UNCHANGED status

Init ==
    \E outx_mode \in {PyNone, PyInt(1), PyInt(2)},
       filelike \in {Comm("GPIBCommunicator"), Comm("SerialCommunicator"),
                     Comm("LoopbackCommunicator")} :
        LET out == construct(outx_mode, filelike)
        IN  /\ out.raised = "none"
            /\ op = "__init__" /\ args = <<outx_mode, filelike>>
            /\ sent = out.sent /\ raised = "none" /\ ret = PyNone
            /\ pc = "idle" /\ caller = "none" /\ chan = 0 /\ i = 0
            /\ resp = PyNone /\ npts = 0 /\ slept = 0 /\ flushed = "no"
            /\ data = <<>> /\ status = 0

SetFrequencySource ==
    /\ Idle
    /\ \E v \in EnumInputs : Complete("frequency_source", <<v>>, frequency_source_set(v))

SetPhase ==
    /\ Idle
    /\ \E v \in PhaseInputs : Complete("phase", <<v>>, phase_set(v))

SetAmplitude ==
    /\ Idle
    /\ \E v \in AmplitudeInputs : Complete("amplitude", <<v>>, amplitude_set(v))

SetCoupling ==
    /\ Idle
    /\ \E v \in EnumInputs : Complete("coupling", <<v>>, coupling_set(v))

SetSampleRate ==
    /\ Idle
    /\ \E v \in SampleRateInputs : Complete("sample_rate", <<v>>, sample_rate_set(v))

SetBufferMode ==
    /\ Idle
    /\ \E v \in EnumInputs : Complete("buffer_mode", <<v>>, buffer_mode_set(v))

CallInit ==
    /\ Idle
    /\ \E v \in SampleRateInputs, m \in EnumInputs :
        Complete("init", <<v, m>>, init(v, m))

DataSnap ==
    /\ Idle
    /\ \E m1 \in ModeInputs, m2 \in ModeInputs, reply \in SnapReplies :
        Complete("data_snap", <<m1, m2>>, data_snap(m1, m2, reply))

SetChannelDisplay ==
    /\ Idle
    /\ \E c \in ChannelInputs, d \in ModeInputs, r \in ModeInputs :
        Complete("set_channel_display", <<c, d, r>>,
                 set_channel_display(c, d, r))

SetTCFrequency ==
    /\ Idle
    /\ \E v \in FrequencyInputs : Complete("tc200.frequency", <<v>>, frequency_set(v))

SetTCMode ==
    /\ Idle
    /\ \E v \in EnumInputs : Complete("tc200.mode", <<v>>, mode_set(v))

SetTCEnable ==
    /\ Idle
    /\ \E v \in BoolInputs, reply \in StatReplies :
        Complete("tc200.enable", <<v>>, enable_set(v, reply))

SetTCP ==
    /\ Idle
    /\ \E v \in GainInputs : Complete("tc200.p", <<v>>, p_set(v))
SetTCI ==
    /\ Idle
    /\ \E v \in GainInputs : Complete("tc200.i", <<v>>, i_set(v))
SetTCD ==
    /\ Idle
    /\ \E v \in GainInputs : Complete("tc200.d", <<v>>, d_set(v))

SetTCDegrees ==
    /\ Idle
    /\ \E v \in DegreesInputs : Complete("tc200.degrees", <<v>>, degrees_set(v))

SetTCSensor ==
    /\ Idle
    /\ \E v \in EnumInputs : Complete("tc200.sensor", <<v>>, sensor_set(v))

SetTCBeta ==
    /\ Idle
    /\ \E v \in BetaInputs : Complete("tc200.beta", <<v>>, beta_set(v))

SetInputShieldGround ==
    /\ Idle
    /\ \E v \in {PyBool(TRUE), PyBool(FALSE)} :
        Complete("input_shield_ground", <<v>>, input_shield_ground_set(v.b))

SetDataTransfer ==
    /\ Idle
    /\ \E v \in {PyBool(TRUE), PyBool(FALSE)} :
        Complete("data_transfer", <<v>>, data_transfer_set(v.b))

\* What an echoing channel answers a query with: the operand of the last
\* command named `name` that was written, as text.
LastWritten(s, name) ==
    LET ks == {k \in 1..Len(s) : s[k][1] = name}
    IN  s[CHOOSE k \in ks : \A j \in ks : j <= k][2]

EchoReply(name) == Numeral(LastWritten(sent, name))

\* A getter read after its setter has returned, the arguments of the
\* setter being kept for comparison.
Answer(name, out) ==
    /\ op' = name
    /\ sent' = sent \o out.sent /\ raised' = out.raised /\ ret' = out.ret
    /\ pc' = "done"
    /\ UNCHANGED <<args, caller, chan, i, resp, npts, slept, flushed, data,
                   status>>

\* The getters, each read on an echoing channel after its setter.
GetFrequencySource ==
    /\ pc = "done" /\ op = "frequency_source" /\ raised = "none"
    /\ Answer("frequency_source.get", frequency_source_get(EchoReply("FMOD")))

GetInputShieldGround ==
    /\ pc = "done" /\ op = "input_shield_ground" /\ raised = "none"
    /\ Answer("input_shield_ground.get",
              input_shield_ground_get(EchoReply("IGND")))

GetCoupling ==
    /\ pc = "done" /\ op = "coupling" /\ raised = "none"
    /\ Answer("coupling.get", coupling_get(EchoReply("ICPL")))

GetSampleRate ==
    /\ pc = "done" /\ op = "sample_rate" /\ raised = "none"
    /\ Answer("sample_rate.get", sample_rate_get(EchoReply("SRAT")))

GetBufferMode ==
    /\ pc = "done" /\ op = "buffer_mode" /\ raised = "none"
    /\ Answer("buffer_mode.get", buffer_mode_get(EchoReply("SEND")))

GetDataTransfer ==
    /\ pc = "done" /\ op = "data_transfer" /\ raised = "none"
    /\ Answer("data_transfer.get", data_transfer_get(EchoReply("FAST")))
SetOffsetExpand ==
    /\ Idle
    /\ \E m \in ModeInputs, offset \in OffsetInputs, expand \in ExpandInputs :
        Complete("set_offset_expand", <<m, offset, expand>>,
                 set_offset_expand(m, offset, expand))
\* A call that reads one reply and runs to its end in one step; the reply
\* is kept in resp.
Queried(name, a, reply, out) ==
    /\ op' = name /\ args' = a
    /\ sent' = out.sent /\ raised' = out.raised /\ ret' = out.ret
    /\ pc' = "done"
    /\ resp' = PyStr(reply)
    /\ caller' = "none" /\ chan' = 0 /\ i' = 0
    /\ npts' = 0 /\ slept' = 0 /\ flushed' = "no" /\ data' = <<>>
    /\ UNCHANGED status

\* TC200.check_command called by the user
CheckCommand ==
    /\ Idle
    /\ \E c \in Commands, reply \in RawReplies :
        Queried("tc200.check_command", <<PyStr(c.chars)>>, reply,
                Ok(<< <<c.name>> >>, PyStr(check_command(c.chars, reply))))

GetTCFrequency ==
    /\ Idle
    /\ \E reply \in RawReplies :
        Queried("tc200.frequency.get", <<>>, reply, frequency_get(reply))
GetTCMode ==
    /\ Idle
    /\ \E reply \in StatReplies :
        Queried("tc200.mode.get", <<>>, reply, mode_get(reply))

GetTCEnable ==
    /\ Idle
    /\ \E reply \in StatReplies :
        Queried("tc200.enable.get", <<>>, reply, enable_get(reply))

GetTCDegrees ==
    /\ Idle
    /\ \E reply \in StatReplies :
        Queried("tc200.degrees.get", <<>>, reply, degrees_get(reply))
GetTCMaxPower ==
    /\ Idle
    /\ \E reply \in LimitReplies :
        Queried("tc200.max_power.get", <<>>, reply,
                PropertyGet(TC200Class.max_power, reply))

SetTCMaxPower ==
    /\ Idle
    /\ \E v \in LimitInputs :
        Complete("tc200.max_power", <<v>>,
                 PropertySet(TC200Class.max_power, v))

GetTCMaxTemperature ==
    /\ Idle
    /\ \E reply \in LimitReplies :
        Queried("tc200.max_temperature.get", <<>>, reply,
                PropertyGet(TC200Class.max_temperature, reply))

SetTCMaxTemperature ==
    /\ Idle
    /\ \E v \in LimitInputs :
        Complete("tc200.max_temperature", <<v>>,
                 PropertySet(TC200Class.max_temperature, v))
\* A TC200 device as the driver meets it: it answers stat? with its status
\* word, with or without the echo of the command, and ens toggles its
\* enable bit (bit 0).
DeviceStatReplies(s) ==
    {Numeral(s) \o <<"\r", ">">>,
     StatQuery \o <<"\r">> \o Numeral(s) \o <<"\r", ">">>}

DeviceAfter(s, cmds) ==
    IF \E k \in 1..Len(cmds) : cmds[k] = <<"ens">>
    THEN (IF s % 2 = 1 THEN s - 1 ELSE s + 1)
    ELSE s

\* TC200.__init__ on a device in some state; the calls that follow are made
\* against that device.
AttachTC200 ==
    /\ Idle
    /\ \E s \in 0..MaxStatus : status' = s
    /\ op' = "tc200.__init__" /\ args' = <<>>
    /\ sent' = <<>> /\ raised' = "none" /\ ret' = PyNone
    /\ pc' = "tc200"
    /\ FreshLocals

\* TC200.enable (setter) against the attached device; the device stays
\* attached for the next assignment.
SetTCEnableOnDevice ==
    /\ pc = "tc200"
    /\ \E v \in BoolInputs, reply \in DeviceStatReplies(status) :
        LET out == enable_set(v, reply)
        IN  /\ op' = "tc200.enable.device" /\ args' = <<v>>
            /\ sent' = out.sent /\ raised' = out.raised /\ ret' = out.ret
            /\ status' = DeviceAfter(status, out.sent)
    /\ FreshLocals
    /\ UNCHANGED pc
\* Entering num_data_points on behalf of `who`.
EnterNdp(who) ==
    /\ pc' = "ndp" /\ caller' = who /\ i' = 0 /\ resp' = PyNone

\* SRS830.num_data_points read as a property by the user
NumDataPoints ==
    /\ Idle
    /\ op' = "num_data_points" /\ args' = <<>>
    /\ sent' = <<>> /\ raised' = "none" /\ ret' = PyNone
    /\ EnterNdp("get")
    /\ chan' = 0 /\ npts' = 0 /\ slept' = 0 /\ flushed' = "no" /\ data' = <<>>
    /\ UNCHANGED status

\* num_data_points: one turn of the loop, `resp = self.query('SPTS?').strip()`
NdpQuery ==
    /\ pc = "ndp"
    /\ ndp_continue(resp, i)
    /\ \E reply \in PointReplies :
        /\ sent' = Append(sent, <<"SPTS?">>)
        /\ resp' = PyStr(Strip(reply))
    /\ i' = i + 1
    /\ UNCHANGED <<status, op, args, raised, ret, pc, caller, chan, npts, slept,
                   flushed, data>>

\* num_data_points returns or raises to the user
NdpReturn ==
    /\ pc = "ndp" /\ caller = "get"
    /\ ~ndp_continue(resp, i)
    /\ raised' = ndp_result(resp).raised
    /\ ret' = ndp_result(resp).ret
    /\ pc' = "done"
    /\ UNCHANGED <<status, op, args, sent, caller, chan, i, resp, npts, slept,
                   flushed, data>>

\* SRS830.read_data_buffer called by the user
ReadDataBuffer ==
    /\ Idle
    /\ \E channel \in ChannelInputs :
        LET c == rdb_channel(channel)
        IN  IF c.raised # "none"
            THEN Complete("read_data_buffer", <<channel>>,
                          Raise(<<>>, c.raised))
            ELSE /\ op' = "read_data_buffer" /\ args' = <<channel>>
                 /\ sent' = <<>> /\ raised' = "none" /\ ret' = PyNone
                 /\ chan' = c.val
                 /\ EnterNdp("read")
                 /\ npts' = 0 /\ slept' = 0 /\ flushed' = "no"
                 /\ data' = <<>>
    /\ UNCHANGED status

\* read_data_buffer: `N = self.num_data_points`; a failure is not caught,
\* here or in take_measurement, and ends the call
RdbCounted ==
    /\ pc = "ndp" /\ caller = "read"
    /\ ~ndp_continue(resp, i)
    /\ IF ndp_result(resp).raised # "none"
       THEN /\ raised' = ndp_result(resp).raised
            /\ pc' = "done"
            /\ npts' = npts
       ELSE /\ raised' = raised
            /\ pc' = "trca"
            /\ npts' = ndp_result(resp).ret.n
    /\ UNCHANGED <<status, op, args, sent, ret, caller, chan, i, resp, slept,
                   flushed, data>>

\* read_data_buffer called by the user: the TRCA? round trip and the return
RdbReturn ==
    /\ pc = "trca" /\ op = "read_data_buffer"
    /\ \E reply \in BufferReplies :
        /\ sent' = Append(sent, <<"TRCA?", chan, 0, npts>>)
        /\ ret' = PyList(reply)
    /\ pc' = "done"
    /\ UNCHANGED <<status, op, args, raised, caller, chan, i, resp, npts, slept,
                   flushed, data>>

\* SRS830.take_measurement, up to the sleep
TakeMeasurement ==
    /\ Idle
    /\ \E sample_rate \in SampleRateInputs, num_samples \in NumSamplesInputs :
        LET out == tm_prepare(sample_rate, num_samples)
        IN  /\ op' = "take_measurement" /\ args' = <<sample_rate, num_samples>>
            /\ sent' = out.sent /\ raised' = out.raised /\ ret' = PyNone
            /\ pc' = IF out.raised = "none" THEN "tm_sleep" ELSE "done"
            /\ FreshLocals
    /\ UNCHANGED status

\* take_measurement: time.sleep(sample_time + 0.1), in tenths of a second
TmSleep ==
    /\ pc = "tm_sleep"
    /\ slept' = 10 * sample_time(args[1], args[2]) + 1
    /\ pc' = "tm_pause"
    /\ UNCHANGED <<status, op, args, sent, raised, ret, caller, chan, i, resp, npts,
                   flushed, data>>

\* take_measurement: self.pause(), then the try block is entered
TmPause ==
    /\ pc = "tm_pause"
    /\ sent' = sent \o pause.sent
    /\ EnterNdp("flush")
    /\ UNCHANGED <<status, op, args, raised, ret, chan, npts, slept, flushed, data>>

\* the forced-flush query without its try/except: a failure ends the call
TmFlushedUncaught ==
    /\ pc = "ndp" /\ caller = "flush"
    /\ ~ndp_continue(resp, i)
    /\ IF ndp_result(resp).raised # "none"
       THEN /\ raised' = ndp_result(resp).raised
            /\ pc' = "done"
            /\ UNCHANGED <<status, op, args, sent, ret, caller, chan, i, resp, npts,
                           slept, flushed, data>>
       ELSE /\ flushed' = "returned"
            /\ chan' = rdb_channel(PyStr(ModeNames.ch1)).val
            /\ EnterNdp("read")
            /\ UNCHANGED <<status, op, args, sent, raised, ret, npts, slept, data>>

\* take_measurement: the try block ends; `except: pass` discards a failure
\* and read_data_buffer('ch1') begins
TmFlushed ==
    /\ pc = "ndp" /\ caller = "flush"
    /\ ~ndp_continue(resp, i)
    /\ flushed' = IF ndp_result(resp).raised = "none" THEN "returned"
                  ELSE "discarded"
    /\ chan' = rdb_channel(PyStr(ModeNames.ch1)).val
    /\ EnterNdp("read")
    /\ UNCHANGED <<status, op, args, sent, raised, ret, npts, slept, data>>

\* take_measurement: the TRCA? round trip of channel 1, then
\* read_data_buffer('ch2') begins
TmReadCh1 ==
    /\ pc = "trca" /\ op = "take_measurement" /\ Len(data) = 0
    /\ \E reply \in BufferReplies :
        /\ sent' = Append(sent, <<"TRCA?", chan, 0, npts>>)
        /\ data' = Append(data, PyList(reply))
    /\ chan' = rdb_channel(PyStr(ModeNames.ch2)).val
    /\ EnterNdp("read")
    /\ UNCHANGED <<status, op, args, raised, ret, npts, slept, flushed>>

\* take_measurement: the TRCA? round trip of channel 2 and the return
TmReadCh2 ==
    /\ pc = "trca" /\ op = "take_measurement" /\ Len(data) = 1
    /\ \E reply \in BufferReplies :
        /\ sent' = Append(sent, <<"TRCA?", chan, 0, npts>>)
        /\ data' = Append(data, PyList(reply))
        /\ ret' = PyList(data')
    /\ pc' = "done"
    /\ UNCHANGED <<status, op, args, raised, caller, chan, i, resp, npts, slept,
                   flushed>>

Next ==
    \/ SetFrequencySource
    \/ SetPhase
    \/ SetAmplitude
    \/ SetCoupling
    \/ SetSampleRate
    \/ SetBufferMode
    \/ CallInit
    \/ DataSnap
    \/ SetChannelDisplay
    \/ NumDataPoints
    \/ NdpQuery
    \/ NdpReturn
    \/ ReadDataBuffer
    \/ RdbCounted
    \/ RdbReturn
    \/ TakeMeasurement
    \/ TmSleep
    \/ TmPause
    \/ TmFlushed
    \/ TmReadCh1
    \/ TmReadCh2
    \/ SetTCFrequency
    \/ SetTCMode
    \/ SetTCEnable
    \/ SetTCP
    \/ SetTCI
    \/ SetTCD
    \/ SetTCDegrees
    \/ SetTCSensor
    \/ SetTCBeta
    \/ SetInputShieldGround
    \/ SetDataTransfer
    \/ GetFrequencySource
    \/ GetInputShieldGround
    \/ GetCoupling
    \/ GetSampleRate
    \/ GetBufferMode
    \/ GetDataTransfer
    \/ SetOffsetExpand
    \/ CheckCommand
    \/ GetTCFrequency
    \/ GetTCMode
    \/ GetTCEnable
    \/ GetTCDegrees
    \/ GetTCMaxPower
    \/ SetTCMaxPower
    \/ GetTCMaxTemperature
    \/ SetTCMaxTemperature
    \/ AttachTC200
    \/ SetTCEnableOnDevice

Spec == Init /\ [][Next]_vars

---------------------------------------------------------------------------
(* Properties.                                                             *)

Done == pc = "done"

IsPrefix(s, t) == Len(s) <= Len(t) /\ SubSeq(t, 1, Len(s)) = s

IsSpts(c) == c[1] = "SPTS?"
NotSpts(c) == c[1] # "SPTS?"
IsTrca(c) == c[1] = "TRCA?"

\* take_measurement called with a legal rate and a legal sample count
TmLegal ==
    /\ op = "take_measurement"
    /\ IsNum(args[1]) /\ Contains(VALID_SAMPLE_RATES, args[1])
    /\ ~Gt(args[2], PyInt(16383))

\* the writes that precede the wait, and the pause that follows it
TmHead ==
    << <<"REST">>, <<"SRAT", IndexOf(VALID_SAMPLE_RATES, args[1])>>,
       <<"SEND", 0>>, <<"FAST", 2>>, <<"STRD">>, <<"PAUS">> >>

\* C1: in take_measurement with a legal rate and count, the commands other
\* than the point-count queries are, in this order, REST, SRAT <index>,
\* SEND 0, FAST 2, STRD, PAUS, TRCA?1,0,N, TRCA?2,0,N; the wait lies between
\* STRD and PAUS; point-count queries are written only after PAUS and the
\* first of them precedes the buffer reads; a call that returns has written
\* the whole sequence; and a call that raises has got past the forced-flush
\* query, whose failure is discarded, and raises what a later point-count
\* query raised.
C1_MeasurementOrder ==
    TmLegal =>
        LET wire == SelectSeq(sent, NotSpts)
            reads == SelectSeq(sent, IsTrca)
        IN  /\ IsPrefix(SubSeq(TmHead, 1, 5), wire)
            /\ Len(wire) >= 6 => IsPrefix(TmHead, wire)
            /\ SubSeq(wire, 7, Len(wire)) = reads
            /\ Len(reads) <= 2
            /\ \A k \in 1..Len(reads) :
                    /\ reads[k][2] = k /\ reads[k][3] = 0
                    /\ reads[k][4] >= 0
            /\ (sent # <<>> /\ IsTrca(sent[Len(sent)]))
                    => sent[Len(sent)][4] = npts
            /\ \A k \in 1..Len(sent) : IsSpts(sent[k]) => k > 6
            /\ Len(sent) >= 7 => IsSpts(sent[7])
            /\ (slept # 0) => Len(sent) >= 5
            /\ Len(sent) >= 6
                    => slept = 10 * sample_time(args[1], args[2]) + 1
            /\ (Done /\ raised = "none") => Len(reads) = 2
            /\ (Done /\ raised # "none")
                    => /\ flushed # "no"
                       /\ caller = "read"
                       /\ raised = ndp_result(resp).raised

\* C1 witness: the forced-flush query failed, and the call went on to read
\* both buffers and returned.
C1_Witness ==
    /\ TmLegal /\ Done /\ raised = "none"
    /\ flushed = "discarded"
    /\ Len(SelectSeq(sent, IsTrca)) = 2

\* C2: take_measurement with more than 16383 samples ends at once with a
\* ValueError, whatever the sample rate, having written nothing and not
\* having slept.
C2_TooManySamples ==
    (op = "take_measurement" /\ Gt(args[2], PyInt(16383)))
        => /\ Done
           /\ raised = "ValueError"
           /\ sent = <<>>
           /\ slept = 0

\* C2 witness: a call with 16384 samples has failed.
C2_Witness ==
    /\ op = "take_measurement" /\ Done
    /\ args[2] = PyInt(16384)
    /\ raised = "ValueError"

SptsOnly(n) == [k \in 1..n |-> <<"SPTS?">>]

\* what each state of a point-count read must satisfy
NdpBounded ==
    /\ i \in 0..10
    /\ op = "num_data_points" => sent = SptsOnly(i)
    /\ (op = "num_data_points" /\ Done) =>
            /\ i >= 1
            /\ IF resp.chars = <<>>
               THEN i = 10 /\ raised = "IOError" /\ ret = PyNone
               ELSE IF IsNumeral(resp.chars)
                    THEN raised = "none" /\ ret = PyInt(ParseInt(resp.chars))
                    ELSE raised = "ValueError" /\ ret = PyNone
    /\ (op \in {"read_data_buffer", "take_measurement"} /\ Done
            /\ caller = "read" /\ Falsy(resp)) =>
            /\ raised = "IOError"
            /\ i = 10
            /\ sent[Len(sent)] = <<"SPTS?">>

\* what each step of a point-count read must satisfy
NdpStep ==
    pc = "ndp" =>
        IF Falsy(resp) /\ i < 10
        THEN sent' = Append(sent, <<"SPTS?">>) /\ i' = i + 1 /\ pc' = "ndp"
        ELSE /\ sent' = sent
             /\ (Falsy(resp) /\ caller # "flush")
                    => raised' = "IOError" /\ pc' = "done"

\* C3: a read of num_data_points writes at most 10 SPTS? queries; it
\* queries again only while the reply, stripped of white space, is empty
\* and fewer than 10 queries were made; at the first reply that is not
\* empty it stops and returns int(reply) (a reply that is no numeral makes
\* int raise ValueError); when all 10 replies are empty it raises IOError,
\* and inside read_data_buffer that IOError ends the call.
C3_BoundedRetry == []NdpBounded /\ [][NdpStep]_vars

\* C3 witness: a user's read of num_data_points gave up after ten empty
\* replies.
C3_Witness ==
    /\ op = "num_data_points" /\ Done
    /\ raised = "IOError"
    /\ sent = SptsOnly(10)

\* The setters with a declared domain, and the domain each declares.
Setters ==
    {"frequency_source", "coupling", "buffer_mode", "phase", "amplitude",
     "sample_rate", "tc200.frequency", "tc200.mode", "tc200.enable",
     "tc200.p", "tc200.i", "tc200.d", "tc200.degrees", "tc200.sensor",
     "tc200.beta"}

\* a number or quantity, in the base unit of its dimension
BaseValue(v) ==
    IF v.kind = "qty" THEN Mul(v.mag, UnitScale[v.unit]) ELSE v

Between(lo, v, hi) == ~Lt(v, lo) /\ ~Gt(v, hi)

IsTrigger(v) == IsStr(v) /\ Lower(v.chars) = Trigger
IsValidRate(v) == IsNum(v) /\ \E n \in (-4)..9 : v = Pow2(n)

InDomain(setter, v) ==
    CASE setter = "frequency_source" -> v \in Members(FreqSource)
      [] setter = "coupling" -> v \in Members(Coupling)
      [] setter = "buffer_mode" -> v \in Members(BufferMode)
      [] setter = "phase" ->
            /\ ~Lt(BaseValue(v), PyInt(-360))
            /\ Lt(BaseValue(v), PyInt(730))
      [] setter = "amplitude" -> Between(Rat(4, 1000), BaseValue(v), PyInt(5))
      [] setter = "sample_rate" -> IsValidRate(v) \/ IsTrigger(v)
      [] setter = "tc200.frequency" ->
            Between(PyInt(5), BaseValue(v), PyInt(150))
      [] setter = "tc200.mode" -> v \in Members(TCMode)
      [] setter = "tc200.enable" -> IsBool(v)
      [] setter = "tc200.p" -> Between(PyInt(1), v, PyInt(250))
      [] setter = "tc200.i" -> Between(PyInt(0), v, PyInt(250))
      [] setter = "tc200.d" -> Between(PyInt(0), v, PyInt(250))
      [] setter = "tc200.degrees" ->
            v \in {Unit("degC"), Unit("degF"), Unit("degK")}
      [] setter = "tc200.sensor" -> v \in Members(Sensor)
      [] setter = "tc200.beta" -> Between(PyInt(2000), v, PyInt(6000))

\* The setter refused its argument: it raised one of the errors it raises
\* for an argument (the TC200 enable setter also raises ValueError when the
\* stat? reply it reads does not parse, which refuses nothing).
Rejected ==
    /\ op \in Setters /\ Done
    /\ raised \in {"ValueError", "TypeError", "AttributeError"}
    /\ op = "tc200.enable" => raised = "TypeError"

\* C4: a setter that rejects its argument has written nothing.
C4_RejectedWritesNothing == Rejected => sent = <<>>

\* Every argument outside the declared domain is rejected, and nothing is
\* written for it.
OutOfDomainNeverSent ==
    (op \in Setters /\ Done /\ ~InDomain(op, args[1]))
        => Rejected /\ sent = <<>>

\* The code the sample_rate setter is to write for a legal value.
RateCode(v) ==
    IF IsTrigger(v) THEN 14
    ELSE 4 + (CHOOSE n \in (-4)..9 : v = Pow2(n))

\* C10: for every legal value (2^n for n in -4..9, or "trigger" in any
\* case) the sample_rate setter returns without raising, having written
\* exactly SRAT <n+4>, or SRAT 14 for "trigger".
C10_SampleRateAccepted ==
    (op = "sample_rate" /\ Done /\ InDomain("sample_rate", args[1]))
        => /\ raised = "none"
           /\ sent = << <<"SRAT", RateCode(args[1])>> >>

\* The same for the numeric rates alone.
NumericRateAccepted ==
    (op = "sample_rate" /\ Done /\ IsValidRate(args[1]))
        => /\ raised = "none"
           /\ sent = << <<"SRAT", RateCode(args[1])>> >>

\* C7: the phase setter writes exactly PHAS <v>, v the value in degrees,
\* when -360 <= v < 730, and otherwise raises ValueError and writes nothing.
C7_PhaseRange ==
    (op = "phase" /\ Done) =>
        LET v == BaseValue(args[1])
        IN  IF ~Lt(v, PyInt(-360)) /\ Lt(v, PyInt(730))
            THEN raised = "none" /\ sent = << <<"PHAS", v>> >>
            ELSE raised = "ValueError" /\ sent = <<>>

\* C7 witness: a phase given in arc minutes, just below 730 degrees, was
\* written in degrees.
C7_Witness ==
    /\ op = "phase" /\ Done
    /\ args[1] = Qty(PyInt(730 * 60 - 1), "arcminute")
    /\ sent = << <<"PHAS", Rat(730 * 60 - 1, 60)>> >>

\* C8 as stated: both boundary values, -360 and 730, are rejected and
\* nothing is written.
C8_BothBoundsRejected ==
    (op = "phase" /\ Done
        /\ (BaseValue(args[1]) = PyInt(-360) \/ BaseValue(args[1]) = PyInt(730)))
        => raised # "none" /\ sent = <<>>

\* C8: the phase setter rejects 730 itself, writing nothing, and accepts
\* -360 itself, writing PHAS -360.
C8_UpperBoundRejected ==
    (op = "phase" /\ Done) =>
        /\ BaseValue(args[1]) = PyInt(730)
                => raised = "ValueError" /\ sent = <<>>
        /\ BaseValue(args[1]) = PyInt(-360)
                => raised = "none" /\ sent = << <<"PHAS", PyInt(-360)>> >>

\* C8 witness: phase 730 was rejected.
C8_Witness ==
    /\ op = "phase" /\ Done
    /\ args[1] = PyInt(730)
    /\ raised = "ValueError" /\ sent = <<>>

\* C9: the amplitude setter writes exactly SLVL <v>, v the value in volts,
\* when 0.004 <= v <= 5, and otherwise raises ValueError and writes nothing.
C9_AmplitudeRange ==
    (op = "amplitude" /\ Done) =>
        LET v == BaseValue(args[1])
        IN  IF Between(Rat(4, 1000), v, PyInt(5))
            THEN raised = "none" /\ sent = << <<"SLVL", v>> >>
            ELSE raised = "ValueError" /\ sent = <<>>

\* C9 witness: the lower bound, given as 4 mV, was written as 0.004 V.
C9_Witness ==
    /\ op = "amplitude" /\ Done
    /\ args[1] = Qty(PyInt(4), "mV")
    /\ sent = << <<"SLVL", Rat(4, 1000)>> >>

\* The Mode an argument names: the member itself, or the member whose name
\* is the string in lower case.
NamesMode(v, names) ==
    \/ v \in {Mode[k] : k \in names}
    \/ IsStr(v) /\ \E k \in names : Lower(v.chars) = ModeNames[k]

ModeNamed(v) ==
    IF IsStr(v)
    THEN CHOOSE k \in DOMAIN ModeNames : Lower(v.chars) = ModeNames[k]
    ELSE v.name

SnapshotSet == DOMAIN data_snap_modes

\* C5: data_snap(m1, m2) with m1, m2 two different members of the snapshot
\* set, each a Mode or a string alias in any case, returns the two reply
\* values in order after writing exactly SNAP? c1,c2 with the codes of
\* data_snap's own table; data_snap(m, m) raises ValueError and writes
\* nothing.
C5_DataSnap ==
    (op = "data_snap" /\ Done
        /\ NamesMode(args[1], SnapshotSet) /\ NamesMode(args[2], SnapshotSet))
        => LET n1 == ModeNamed(args[1])
               n2 == ModeNamed(args[2])
           IN  IF n1 = n2
               THEN raised = "ValueError" /\ sent = <<>>
               ELSE /\ raised = "none"
                    /\ sent = << <<"SNAP?", data_snap_modes[n1],
                                   data_snap_modes[n2]>> >>
                    /\ ret \in {PyList(r) : r \in SnapReplies}

DisplaySet(c) == DOMAIN valid_channel_display[c]
RatioSet(c) == DOMAIN valid_channel_ratio[c]

\* the arguments are a channel with a display and a ratio of that channel
DisplayLegal ==
    /\ NamesMode(args[1], {"ch1", "ch2"})
    /\ LET c == valid_channel[ModeNamed(args[1])]
       IN  /\ NamesMode(args[2], DisplaySet(c))
           /\ NamesMode(args[3], RatioSet(c))

\* C6: set_channel_display writes exactly DDEF <channel>,<display code>,
\* <ratio code>, the codes taken from the channel's display table and from
\* the channel's ratio table at the supplied ratio, when the channel is ch1
\* or ch2 and display and ratio belong to that channel; in every other case
\* it raises and writes nothing.
C6_ChannelDisplay ==
    (op = "set_channel_display" /\ Done) =>
        IF DisplayLegal
        THEN LET c == valid_channel[ModeNamed(args[1])]
             IN  /\ raised = "none"
                 /\ sent = << <<"DDEF", c,
                                valid_channel_display[c][ModeNamed(args[2])],
                                valid_channel_ratio[c][ModeNamed(args[3])]>> >>
        ELSE raised # "none" /\ sent = <<>>

\* What does hold of set_channel_display: it never writes.
ChannelDisplayNeverWrites ==
    (op = "set_channel_display" /\ Done) => raised # "none" /\ sent = <<>>


---------------------------------------------------------------------------
(* Round trips on an echoing channel.                                      *)

RoundTripSettings ==
    {"frequency_source", "coupling", "buffer_mode", "sample_rate",
     "input_shield_ground", "data_transfer"}

RoundTripGetters ==
    {"frequency_source.get", "coupling.get", "buffer_mode.get",
     "sample_rate.get", "input_shield_ground.get", "data_transfer.get"}

LegalValue(setting, v) ==
    IF setting \in {"input_shield_ground", "data_transfer"} THEN IsBool(v)
    ELSE InDomain(setting, v)

\* Python == between what a getter returned and what was set: a quantity
\* equals a bare number of the same magnitude.
Equals(a, b) ==
    IF a.kind = "qty" /\ b.kind = "num" THEN a.mag = b ELSE a = b

\* C11: on an echoing channel, for each of the six settings and every legal
\* value v, the setter accepts v and the getter read after it returns a
\* value equal to v (for an enumerated setting, the member whose code was
\* replied).
C11_RoundTrip ==
    /\ (op \in RoundTripSettings /\ Done /\ LegalValue(op, args[1]))
            => raised = "none"
    /\ (op \in RoundTripGetters /\ Done)
            => raised = "none" /\ Equals(ret, args[1])

\* What does hold: every getter but frequency_source returns what was set.
RoundTripButFrequencySource ==
    (op \in RoundTripGetters \ {"frequency_source.get"} /\ Done)
        => raised = "none" /\ Equals(ret, args[1])

\* The frequency_source getter fails on every integer reply.
FrequencySourceGetFails ==
    (op = "frequency_source.get" /\ Done) => raised = "KeyError"

---------------------------------------------------------------------------
(* set_offset_expand.                                                      *)

\* the arguments are legal: mode x, y or r, -105 <= offset <= 105, expand
\* one of 1, 10, 100
OffsetExpandLegal ==
    /\ NamesMode(args[1], DOMAIN XYR_MODE_MAP)
    /\ Between(PyInt(-105), args[2].num, PyInt(105))
    /\ args[3].num \in {PyInt(1), PyInt(10), PyInt(100)}

ExpandIndex(v) == CASE v = PyInt(1) -> 0 [] v = PyInt(10) -> 1
                    [] v = PyInt(100) -> 2

\* C12: set_offset_expand with legal arguments succeeds and writes exactly
\* OEXP <mode code>,<offset>,<expand index>, the mode code 1, 2, 3 for
\* x, y, r and the index 0, 1, 2 for 1, 10, 100.
C12_OffsetExpand ==
    (op = "set_offset_expand" /\ Done /\ OffsetExpandLegal)
        => /\ raised = "none"
           /\ sent = << <<"OEXP", XYR_MODE_MAP[ModeNamed(args[1])],
                          args[2].num, ExpandIndex(args[3].num)>> >>

\* What does hold of set_offset_expand: it raises on every call and never
\* writes, with TypeError whenever the mode is x, y or r.
OffsetExpandNeverWrites ==
    (op = "set_offset_expand" /\ Done)
        => /\ raised # "none" /\ sent = <<>>
           /\ NamesMode(args[1], DOMAIN XYR_MODE_MAP) => raised = "TypeError"

---------------------------------------------------------------------------
(* TC200 reply classification.                                             *)

\* C13: check_command returns the undefined-command word whenever the reply
\* contains CMD_NOT_DEFINED (whatever else it contains), else the
\* invalid-argument word when it contains CMD_ARG_INVALID, else the reply
\* without the echo of its command and without the two terminators; a
\* getter given a reply with CMD_NOT_DEFINED returns None and parses no
\* number out of it.
C13_CheckCommand ==
    /\ (op = "tc200.check_command" /\ Done) =>
            /\ raised = "none"
            /\ IF Found(resp.chars, CMD_NOT_DEFINED)
               THEN ret = PyStr(CMD_NOT_DEFINED)
               ELSE IF Found(resp.chars, CMD_ARG_INVALID)
               THEN ret = PyStr(CMD_ARG_INVALID)
               ELSE /\ \A p \in Payloads :
                        resp.chars \in Framed(args[1].chars, p)
                            => ret = PyStr(p)
                    /\ ~Found(ret.chars, terminator)
                    /\ ~Found(ret.chars, end_terminator)
    /\ (op = "tc200.frequency.get" /\ Done
            /\ Found(resp.chars, CMD_NOT_DEFINED))
            => raised = "none" /\ ret = PyNone

\* C13 witness: a reply with both error words and a digit was classified as
\* undefined command.
C13_Witness ==
    /\ op = "tc200.check_command" /\ Done
    /\ resp.chars = CMD_ARG_INVALID \o Blank \o CMD_NOT_DEFINED \o <<"\r", ">">>
    /\ ret = PyStr(CMD_NOT_DEFINED)

\* The frequency getter parses the payload of an ordinary reply.
FrequencyParsed ==
    (op = "tc200.frequency.get" /\ Done
        /\ resp.chars \in Framed(FreqQuery, <<"7", ".", "5">>))
        => raised = "none" /\ ret = Qty(Rat(15, 2), "Hz")

---------------------------------------------------------------------------
(* TC200 status word.                                                      *)

\* The reply read is a well-formed status reply, and the word it carries.
StatusRead ==
    \E s \in 0..MaxStatus : resp.chars \in Framed(StatQuery, Numeral(s))

StatusOf ==
    CHOOSE s \in 0..MaxStatus : resp.chars \in Framed(StatQuery, Numeral(s))

StatusReply(s) == Numeral(s) \o <<"\r", ">">>

\* the status word with its enable bit (bit 0) flipped
FlipEnable(s) == IF s % 2 = 1 THEN s - 1 ELSE s + 1

TemperatureUnits == {Unit("degC"), Unit("degF"), Unit("degK")}

\* C14: on every well-formed status word, enable is true exactly when bit 0
\* is set; mode returns a member of TC200.Mode, is not the same for all
\* status words, and is the same for the word with the enable bit flipped;
\* degrees returns one of the three temperature units.
C14_StatusFacets ==
    /\ (op = "tc200.enable.get" /\ Done /\ StatusRead)
            => raised = "none" /\ ret = PyBool(StatusOf % 2 = 1)
    /\ (op = "tc200.mode.get" /\ Done /\ StatusRead)
            => /\ raised = "none" /\ ret \in Members(TCMode)
               /\ \E t \in 0..MaxStatus : mode_get(StatusReply(t)).ret # ret
               /\ mode_get(StatusReply(FlipEnable(StatusOf))).ret = ret
    /\ (op = "tc200.degrees.get" /\ Done /\ StatusRead)
            => raised = "none" /\ ret \in TemperatureUnits

\* What does hold: enable is bit 0 of the status word.
EnableIsBitZero ==
    (op = "tc200.enable.get" /\ Done /\ StatusRead)
        => raised = "none" /\ ret = PyBool(StatusOf % 2 = 1)

\* What does hold: mode is normal for every status word.
ModeAlwaysNormal ==
    (op = "tc200.mode.get" /\ Done /\ StatusRead)
        => raised = "none" /\ ret = TCMode.normal

\* What does hold: degrees fails with TypeError on every status word.
DegreesAlwaysFails ==
    (op = "tc200.degrees.get" /\ Done /\ StatusRead)
        => raised = "TypeError"

---------------------------------------------------------------------------
(* TC200 max_power and max_temperature.                                    *)

\* a value in watts (bare or with a unit of power) within [lo, hi]
IsPower(v) == v.kind = "num" \/ (v.kind = "qty" /\ Dimension[v.unit] = "power")
IsTemperature(v) ==
    v.kind = "num" \/ (v.kind = "qty" /\ Dimension[v.unit] = "temperature")

NoCommandOf(names) == \A k \in 1..Len(sent) : sent[k][1] \notin names

\* C15: reading max_power writes PMAX? and assigning it a power within
\* [0.1, 18] W writes PMAX=<v>; reading max_temperature writes TMAX? and
\* assigning it a temperature within [20, 205] degC writes TMAX=<t>;
\* neither writes the other's command.
C15_PowerAndTemperature ==
    /\ (op = "tc200.max_power.get" /\ Done) => sent = << <<"PMAX?">> >>
    /\ (op = "tc200.max_temperature.get" /\ Done) => sent = << <<"TMAX?">> >>
    /\ (op = "tc200.max_power" /\ Done /\ IsPower(args[1])
            /\ Between(Rat(1, 10), BaseValue(args[1]), PyInt(18)))
            => raised = "none" /\ sent = << <<"PMAX=", BaseValue(args[1])>> >>
    /\ (op = "tc200.max_temperature" /\ Done /\ IsTemperature(args[1])
            /\ Between(PyInt(20), BaseValue(args[1]), PyInt(205)))
            => raised = "none" /\ sent = << <<"TMAX=", BaseValue(args[1])>> >>
    /\ op \in {"tc200.max_power", "tc200.max_power.get"}
            => NoCommandOf({"TMAX?", "TMAX="})
    /\ op \in {"tc200.max_temperature", "tc200.max_temperature.get"}
            => NoCommandOf({"PMAX?", "PMAX="})

\* What does hold: max_power is the temperature limit under another name,
\* max_temperature cannot be assigned, and PMAX is never written.
MaxPowerIsTemperature ==
    /\ (op = "tc200.max_power.get" /\ Done) => sent = << <<"TMAX?">> >>
    /\ (op = "tc200.max_power" /\ Done) =>
            IF IsTemperature(args[1])
               /\ Between(PyInt(20), BaseValue(args[1]), PyInt(205))
            THEN raised = "none"
                 /\ sent = << <<"TMAX=", BaseValue(args[1])>> >>
            ELSE raised = "ValueError" /\ sent = <<>>
    /\ (op = "tc200.max_temperature" /\ Done)
            => raised = "AttributeError" /\ sent = <<>>
    /\ NoCommandOf({"PMAX?", "PMAX="})

---------------------------------------------------------------------------
(* The sample rate argument of init and take_measurement.                  *)

\* init or take_measurement was called with a sample rate outside the
\* declared domain, and failed
BadRateFailed ==
    /\ op \in {"init", "take_measurement"} /\ Done
    /\ ~InDomain("sample_rate", args[1])
    /\ raised # "none"

\* C16: when init or take_measurement fails on a sample rate that is
\* neither 2^n (n in -4..9) nor "trigger", nothing has been written to the
\* channel, REST in particular.
C16_RateCheckedBeforeIO == BadRateFailed => sent = <<>>

\* What does hold: init always clears the data buffer first, and so does
\* take_measurement unless the division by the rate (or the sample-count
\* check) fails before init is reached.
RestPrecedesRateCheck ==
    BadRateFailed =>
        IF op = "take_measurement"
           /\ (Gt(args[2], PyInt(16383)) \/ ~IsNum(args[1]) \/ args[1].n = 0)
        THEN sent = <<>>
        ELSE sent = << <<"REST">> >> /\ raised = "ValueError"

---------------------------------------------------------------------------
(* The TC200 enable setter against a device.                               *)

IsEns(c) == c = <<"ens">>

\* One assignment enable = v, v a boolean, against the attached device.
EnableAssigned ==
    /\ pc = "tc200" /\ op' = "tc200.enable.device"
    /\ IsBool(args'[1])

\* C17: after the assignment enable = v the enable bit of the device is v;
\* ens is written once when the bit differed from v before and not at all
\* when it was v already, so that assigning the same v again changes
\* nothing.
C17_EnableToggle ==
    [][EnableAssigned =>
        /\ raised' = "none"
        /\ (status' % 2 = 1) <=> args'[1].b
        /\ Len(SelectSeq(sent', IsEns))
                = IF (status % 2 = 1) <=> args'[1].b THEN 0 ELSE 1
        /\ (op = "tc200.enable.device" /\ args = args')
                => status' = status /\ SelectSeq(sent', IsEns) = <<>>]_vars

\* C17 witness: the heater was off, enable = True was assigned, ens was
\* written after the status query and the device is on.
C17_Witness ==
    /\ pc = "tc200" /\ op = "tc200.enable.device"
    /\ args = <<PyBool(TRUE)>>
    /\ sent = << <<"stat?">>, <<"ens">> >>
    /\ status % 2 = 1
=============================================================================
